---------------------------- MODULE Spec2Model ----------------------------
(***************************************************************************)
(* The BLE device-communication core of the BLEInterface component.        *)
(*                                                                         *)
(* The repository holds several builds of the component.  Three are       *)
(* modelled: "ble" is src/ble.tsx, "appA" is src/App.tsx lines 23-375     *)
(* (fetch with the Get-Request and its notification), "appC" is            *)
(* src/App.tsx lines 631-975 (fetch of six characteristics).  The copy at  *)
(* src/App.tsx lines 377-629 is appA's with two reads and no Get-Request.  *)
(* `variant` says which build runs; it is chosen once and never changes.   *)
(*                                                                         *)
(* React state is isScanning, devices, connectedDevice, deviceData.  Every *)
(* async function call is a task: a record holding the values its closure  *)
(* captured and the await it is suspended at.  One step of a task is the   *)
(* completion of the awaited transport call together with the code that    *)
(* runs up to the next await.  The transport (react-native-ble-plx) is the *)
(* link, discovery, notification and event state of each device.           *)
(***************************************************************************)
EXTENDS Naturals, Sequences, FiniteSets

VARIABLES variant,          \* which build of BLEInterface runs
          isScanning,       \* useState(false)
          devices,          \* useState<Device[]>([]): ids, in list order
          connectedDevice,  \* useState<Device | null>(null)
          deviceData,       \* useState<any>(null)
          listener,         \* id the onDeviceDisconnected subscription is for
          scanning,         \* the transport is scanning
          seenIds,          \* discoveredDeviceIds of the running scan callback
          timers,           \* armed setTimeout(stopScan) timers
          link,             \* link[d]: the transport link to d is connected
          discovered,       \* discovered[d]: services discovered on this link
          evq,              \* evq[d]: a disconnect event for d awaits delivery
          monitor,          \* devices with a live notification subscription
          req,              \* req[d]: the Get-Request written on d's link
          notified,         \* notified[d]: notifications sent for the request
          tasks,            \* the async calls in flight
          codec,            \* the codec function applied, its input and result
          last              \* what the last step did (history)

vars == <<variant, isScanning, devices, connectedDevice, deviceData, listener,
          scanning, seenIds, timers, link, discovered, evq, monitor, req,
          notified, tasks, codec, last>>

uiVars == <<isScanning, devices, connectedDevice, deviceData, listener>>
scanVars == <<scanning, seenIds, timers>>
bleVars == <<link, discovered, evq, monitor, req, notified>>

---------------------------------------------------------------------------
(* Bounds of the model. *)
MaxTasks == 2
MaxTimers == 2
MaxNotify == 2
MaxFrameLen == 7

Devices == {"d1", "d2"}
Variants == {"ble", "appA", "appC"}
AppVariants == {"appA", "appC"}
TaskIds == 1..MaxTasks

Null == "null"
NoData == [present |-> FALSE, fields |-> {}]
Data(fs) == [present |-> TRUE, fields |-> fs]

IdleTask == [kind |-> "idle", pc |-> "idle", dev |-> Null, cd |-> Null,
             ret |-> "done", i |-> 0, got |-> {}, n |-> 0]

\* The unsigned 32-bit number hi * 65536 + lo, kept as its two halves.
U32(hi, lo) == [hi |-> hi, lo |-> lo]

\* A result of the codec: st is "pending" before the function ran, then
\* "frame" (bytes), "number" (num / den) or "null".
Result(st, num, den, bytes) ==
    [st |-> st, num |-> num, den |-> den, bytes |-> bytes]
NoCodec ==
    [fn |-> "none", in |-> << >>, out |-> Result("none", U32(0, 0), 1, << >>)]

Range(s) == {s[k] : k \in 1..Len(s)}
NoDup(s) == \A a, b \in 1..Len(s) : s[a] = s[b] => a = b

\* A history record: the transport call on dev that completed in the step,
\* whether it succeeded, whether dev's link was up as it completed, the
\* transport call the code that ran in the step issued next ("none" if it
\* issued none), how the async call the step belongs to ended ("none" while
\* it goes on), the reconnects the fetch has made and the fields read so far.
Step(op, dev, ok, up, issued, end, n, got) ==
    [op |-> op, dev |-> dev, ok |-> ok, up |-> up, issued |-> issued,
     end |-> end, n |-> n, got |-> got]
Ev(op, dev, ok) == Step(op, dev, ok, FALSE, "none", "none", 0, {})

---------------------------------------------------------------------------
(* The characteristics each build reads, in the order it reads them. *)
Addr(svc, chr, field) == [svc |-> svc, chr |-> chr, field |-> field]

DLMS_COSEM == "005a02fe-bea5-46a0-c000-73c0d9b578fc"
notifyWrite == "005a02fe-bea5-46a0-c101-73c0d9b578fc"

ReadList(v) ==
    CASE v = "ble" ->
           << Addr("180F", "2A19", "batteryLevel"),
              Addr(DLMS_COSEM, notifyWrite, "valveStatus") >>
      [] v = "appA" ->
           << Addr("1800", "2A00", "deviceName"),
              Addr("1800", "2A01", "appearance"),
              Addr("180A", "2A25", "serialNumber"),
              Addr("180A", "2A26", "firmwareVersion") >>
      [] OTHER ->
           << Addr("1800", "2A00", "deviceName"),
              Addr("1800", "2A01", "appearance"),
              Addr("180A", "2A25", "serialNumber"),
              Addr("180A", "2A26", "firmwareVersion"),
              Addr("180A", "2A27", "hardwareRevision"),
              Addr("180A", "180F", "manufacturer") >>

\* const services = { GAP, DEVICE_INFO, GATT, DLMS_COSEM }, and the Battery
\* service that src/ble.tsx names in its read.
services == {"1800", "180A", "1801", "180F", DLMS_COSEM}

\* const characteristics = { deviceName, appearance, info, ... }, and the
\* battery level that src/ble.tsx names in its read.
characteristics ==
    {"2A00", "2A01", "2A05", "2A27", "2A29", "2A25", "2A26", "2A19",
     notifyWrite, "00002902-0000-1000-8000-00805f9b34fb"}

---------------------------------------------------------------------------
Init ==
    /\ variant \in Variants
    /\ isScanning = FALSE
    /\ devices = << >>
    /\ connectedDevice = Null
    /\ deviceData = NoData
    /\ listener = Null
    /\ scanning = FALSE
    /\ seenIds = {}
    /\ timers = [cur |-> 0, stale |-> 0]
    /\ link = [d \in Devices |-> FALSE]
    /\ discovered = [d \in Devices |-> FALSE]
    /\ evq = [d \in Devices |-> FALSE]
    /\ monitor = {}
    /\ req = [d \in Devices |-> "none"]
    /\ notified = [d \in Devices |-> 0]
    /\ tasks = [t \in TaskIds |-> IdleTask]
    /\ codec = NoCodec
    /\ last = Ev("init", Null, TRUE)

---------------------------------------------------------------------------
(* Scan Aggregator *)

\* stopScan: bleManager.stopDeviceScan(); setIsScanning(false).  The timer
\* of the scan that is stopped stays armed: nothing clears it.
stopScan(firedStale, firedCur) ==
    /\ scanning' = FALSE
    /\ isScanning' = FALSE
    /\ timers' = [cur |-> 0,
                  stale |-> (timers.stale + timers.cur)
                             - ((IF firedStale THEN 1 ELSE 0)
                                + (IF firedCur THEN 1 ELSE 0))]

\* startScan without its check of isScanning.
AlreadyScanning_Never == FALSE

\* if (isScanning) return;
AlreadyScanning == isScanning

\* startScan is called.  The button shows "Start Scan" only while isScanning
\* is false; the function itself returns at once when isScanning is true.
StartScan ==
    /\ connectedDevice = Null
    /\ IF AlreadyScanning
       THEN /\ last' = Ev("startScan", Null, FALSE)
            /\ UNCHANGED <<isScanning, devices, seenIds, scanning, timers>>
       ELSE /\ timers.cur + timers.stale < MaxTimers
            /\ isScanning' = TRUE
            /\ devices' = << >>
            /\ seenIds' = {}
            /\ scanning' = TRUE
            /\ timers' = [cur |-> 1, stale |-> timers.stale + timers.cur]
            /\ last' = Ev("startScan", Null, TRUE)
    /\ UNCHANGED <<codec, variant, connectedDevice, deviceData, listener, tasks>>
    /\ UNCHANGED bleVars

\* The "Stop Scan" button: stopScan.
StopScan ==
    /\ connectedDevice = Null
    /\ isScanning
    /\ stopScan(FALSE, FALSE)
    /\ last' = Ev("stopScan", Null, TRUE)
    /\ UNCHANGED <<codec, variant, devices, seenIds, connectedDevice, deviceData,
                   listener, tasks>>
    /\ UNCHANGED bleVars

\* Discovered without the check for an id already listed.
Discovered_NoDedupe(id) == Append(devices, id)

\* The device list after the scan callback saw device id (it has a name).
Discovered(id) ==
    IF variant = "ble"
    THEN IF \A k \in 1..Len(devices) : devices[k] # id
         THEN Append(devices, id) ELSE devices
    ELSE IF id \notin seenIds THEN Append(devices, id) ELSE devices

\* ScanDiscover without the check of device.name.
ScanDiscover_IgnoresName(id, named) ==
    /\ scanning
    /\ devices' = Discovered(id)
    /\ seenIds' = IF variant # "ble" THEN seenIds \cup {id} ELSE seenIds
    /\ last' = Ev("discover", id, named)
    /\ UNCHANGED <<codec, variant, isScanning, connectedDevice, deviceData, listener,
                   scanning, timers, tasks>>
    /\ UNCHANGED bleVars

\* The scan callback with a device: (error, device) => { ... }.
ScanDiscover(id, named) ==
    /\ scanning
    /\ devices' = IF named THEN Discovered(id) ELSE devices
    /\ seenIds' = IF named /\ variant # "ble" THEN seenIds \cup {id}
                  ELSE seenIds
    /\ last' = Ev("discover", id, named)
    /\ UNCHANGED <<codec, variant, isScanning, connectedDevice, deviceData, listener,
                   scanning, timers, tasks>>
    /\ UNCHANGED bleVars

\* ScanError without its call of stopScan.
ScanError_NoStop ==
    /\ scanning
    /\ last' = Ev("scanError", Null, FALSE)
    /\ UNCHANGED <<codec, variant, tasks>>
    /\ UNCHANGED uiVars
    /\ UNCHANGED scanVars
    /\ UNCHANGED bleVars

\* The scan callback with an error: stopScan(); return.
ScanError ==
    /\ scanning
    /\ stopScan(FALSE, FALSE)
    /\ last' = Ev("scanError", Null, FALSE)
    /\ UNCHANGED <<codec, variant, devices, seenIds, connectedDevice, deviceData,
                   listener, tasks>>
    /\ UNCHANGED bleVars

\* TimerFire with a callback that does not call stopScan.
TimerFire_NoStop(isCur) ==
    /\ IF isCur THEN timers.cur > 0 ELSE timers.stale > 0
    /\ timers' = IF isCur THEN [timers EXCEPT !.cur = @ - 1]
                 ELSE [timers EXCEPT !.stale = @ - 1]
    /\ last' = Ev("timer", Null, isCur)
    /\ UNCHANGED <<codec, variant, tasks, scanning, seenIds>>
    /\ UNCHANGED uiVars
    /\ UNCHANGED bleVars

\* setTimeout(() => stopScan(), 20000) fires: the timer of the running scan
\* (cur) or one left armed by an earlier scan (stale).
TimerFire(isCur) ==
    /\ IF isCur THEN timers.cur > 0 ELSE timers.stale > 0
    /\ stopScan(~isCur, isCur)
    /\ last' = Ev("timer", Null, isCur)
    /\ UNCHANGED <<codec, variant, devices, seenIds, connectedDevice, deviceData,
                   listener, tasks>>
    /\ UNCHANGED bleVars

---------------------------------------------------------------------------
(* Transport Adapter: the link to each device, as the BLE stack sees it. *)

Ready(d) == link[d] /\ discovered[d]

\* The link to d goes down: services must be rediscovered, the notification
\* subscription ends, the request written on this link is gone with it and
\* a disconnect event is queued for the app.
LinkDown(d) ==
    /\ link' = [link EXCEPT ![d] = FALSE]
    /\ discovered' = [discovered EXCEPT ![d] = FALSE]
    /\ evq' = [evq EXCEPT ![d] = TRUE]
    /\ monitor' = monitor \ {d}
    /\ req' = [req EXCEPT ![d] = "none"]
    /\ notified' = [notified EXCEPT ![d] = 0]

\* The radio link to d is lost.
LinkDrop(d) ==
    /\ link[d]
    /\ LinkDown(d)
    /\ last' = Ev("linkDrop", d, TRUE)
    /\ UNCHANGED <<codec, variant, tasks>>
    /\ UNCHANGED uiVars
    /\ UNCHANGED scanVars

\* DisconnectedListener without setDeviceData(null).
DisconnectedListener_KeepsData ==
    /\ connectedDevice' = Null
    /\ listener' = Null
    /\ UNCHANGED deviceData

\* The listener registered by the useEffect on connectedDevice:
\* setConnectedDevice(null); setDeviceData(null).  The effect's cleanup
\* removes the subscription as connectedDevice becomes null.
DisconnectedListener ==
    /\ connectedDevice' = Null
    /\ listener' = Null
    /\ deviceData' = NoData

\* A write has completed and the code after its await has not run yet.
\* Completions and events reach the JavaScript thread in the order they
\* happened, so that code runs before any other code of the app.
AfterWriteDue ==
    \E t \in TaskIds : tasks[t].kind # "idle" /\ tasks[t].pc = "arm"

\* OnDeviceDisconnected with a listener that is called for the disconnection
\* of any device.
OnDeviceDisconnected_AnyDevice(d) ==
    /\ evq[d]
    /\ ~AfterWriteDue
    /\ evq' = [evq EXCEPT ![d] = FALSE]
    /\ IF listener # Null
       THEN DisconnectedListener
       ELSE UNCHANGED <<connectedDevice, listener, deviceData>>
    /\ last' = Ev("onDisconnected", d, connectedDevice = d)
    /\ UNCHANGED <<codec, variant, isScanning, devices, tasks, link, discovered,
                   monitor, req, notified>>
    /\ UNCHANGED scanVars

\* The transport delivers the disconnect event of d; the listener runs if
\* it is registered for d.
OnDeviceDisconnected(d) ==
    /\ evq[d]
    /\ ~AfterWriteDue
    /\ evq' = [evq EXCEPT ![d] = FALSE]
    /\ IF listener = d
       THEN DisconnectedListener
       ELSE UNCHANGED <<connectedDevice, listener, deviceData>>
    /\ last' = Ev("onDisconnected", d, connectedDevice = d)
    /\ UNCHANGED <<codec, variant, isScanning, devices, tasks, link, discovered,
                   monitor, req, notified>>
    /\ UNCHANGED scanVars

\* The device sends a notification for the request it received.  The
\* callback of monitorCharacteristicForDevice merges batteryVoltage into
\* deviceData; without a subscription the notification is lost.  The history
\* says what became of it: "lost", "reading" (the first one delivered for
\* the request) or "rereading" (the request had its reading already).
DeviceNotify(d) ==
    /\ link[d]
    /\ req[d] # "none"
    /\ notified[d] < MaxNotify
    /\ d \in monitor => ~AfterWriteDue
    /\ notified' = [notified EXCEPT ![d] = @ + 1]
    /\ IF d \in monitor
       THEN /\ deviceData' = Data(deviceData.fields \cup {"batteryVoltage"})
            /\ req' = [req EXCEPT ![d] = "resolved"]
       ELSE UNCHANGED <<deviceData, req>>
    /\ last' = Step("notify", d, d \in monitor, link[d], "none",
                    IF d \notin monitor THEN "lost"
                    ELSE IF req[d] = "pending" THEN "reading"
                    ELSE "rereading",
                    0, {})
    /\ UNCHANGED <<codec, variant, isScanning, devices, connectedDevice, listener,
                   tasks, link, discovered, evq, monitor>>
    /\ UNCHANGED scanVars

---------------------------------------------------------------------------
(* Async calls.  A task is one call of connectToDevice, disconnectDevice   *)
(* or fetchDeviceInformation; cd is the connectedDevice its closure saw.   *)

FreeTasks == {t \in TaskIds : tasks[t].kind = "idle"}
NewTask == CHOOSE t \in FreeTasks : \A u \in FreeTasks : t <= u

Running(t, pc) == tasks[t].kind # "idle" /\ tasks[t].pc = pc

\* The call of task t goes on at pc.
Goto(t, pc) == [tasks EXCEPT ![t].pc = pc]

\* The call of task t returns.
Finish(t) == [tasks EXCEPT ![t] = IdleTask]

\* How the call of task t is named in the history when it ends.
Ended(t, ok) ==
    IF tasks[t].kind = "fetch"
    THEN IF ok THEN "fetchDone" ELSE "fetchFailed"
    ELSE IF ok THEN "connectDone" ELSE "connectFailed"

\* The catch block of the call of task t: fetchDeviceInformation and the
\* connectToDevice of src/ble.tsx only log; the connectToDevice of
\* src/App.tsx calls disconnectDevice when its closure saw a session.
CatchCleans(t) ==
    /\ tasks[t].kind = "connect"
    /\ variant \in AppVariants
    /\ tasks[t].cd # Null

Catch(t) ==
    IF CatchCleans(t)
    THEN [tasks EXCEPT ![t].pc = "d_check", ![t].ret = "done"]
    ELSE Finish(t)

CatchEnd(t) == IF CatchCleans(t) THEN "none" ELSE Ended(t, FALSE)

\* A list item is pressed: connectToDevice(item).
PressDevice(d) ==
    /\ ~AfterWriteDue
    /\ connectedDevice = Null
    /\ d \in Range(devices)
    /\ FreeTasks # {}
    /\ tasks' = [tasks EXCEPT ![NewTask] =
                   [kind |-> "connect",
                    pc |-> IF variant = "ble"
                           THEN IF connectedDevice # Null
                                THEN "d_check" ELSE "check"
                           ELSE "connect",
                    dev |-> d, cd |-> connectedDevice, ret |-> "check",
                    i |-> 0, got |-> {}, n |-> 0]]
    /\ last' = Ev("pressDevice", d, TRUE)
    /\ UNCHANGED <<codec, variant>>
    /\ UNCHANGED uiVars
    /\ UNCHANGED scanVars
    /\ UNCHANGED bleVars

\* The "Fetch Device Info" button: fetchDeviceInformation(connectedDevice).
PressFetch ==
    /\ ~AfterWriteDue
    /\ variant \in AppVariants
    /\ connectedDevice # Null
    /\ ~deviceData.present
    /\ FreeTasks # {}
    /\ tasks' = [tasks EXCEPT ![NewTask] =
                   [kind |-> "fetch", pc |-> "check", dev |-> connectedDevice,
                    cd |-> connectedDevice, ret |-> "done",
                    i |-> 0, got |-> {}, n |-> 0]]
    /\ last' = Ev("pressFetch", connectedDevice, TRUE)
    /\ UNCHANGED <<codec, variant>>
    /\ UNCHANGED uiVars
    /\ UNCHANGED scanVars
    /\ UNCHANGED bleVars

\* The "Disconnect" button: disconnectDevice().
PressDisconnect ==
    /\ ~AfterWriteDue
    /\ connectedDevice # Null
    /\ FreeTasks # {}
    /\ tasks' = [tasks EXCEPT ![NewTask] =
                   [kind |-> "disconnect", pc |-> "d_check",
                    dev |-> connectedDevice, cd |-> connectedDevice,
                    ret |-> "done", i |-> 0, got |-> {}, n |-> 0]]
    /\ last' = Ev("pressDisconnect", connectedDevice, TRUE)
    /\ UNCHANGED <<codec, variant>>
    /\ UNCHANGED uiVars
    /\ UNCHANGED scanVars
    /\ UNCHANGED bleVars

\* await bleManager.isDeviceConnected(device.id) of connectToDevice
\* (src/ble.tsx) and await device.isConnected() of fetchDeviceInformation.
\* ok = FALSE: the call rejects.
IsConnectedStep(t, ok) ==
    /\ Running(t, "check")
    /\ LET d == tasks[t].dev
           skip == ok /\ link[d] /\ tasks[t].kind = "connect"
       IN  /\ tasks' = IF ~ok THEN Catch(t)
                       ELSE IF ~link[d] THEN Goto(t, "connect")
                       ELSE IF tasks[t].kind = "connect" THEN Finish(t)
                       ELSE [tasks EXCEPT ![t].pc = "read", ![t].i = 1]
           /\ connectedDevice' = IF skip THEN d ELSE connectedDevice
           /\ listener' = IF skip THEN d ELSE listener
           /\ last' = Step("isConnected", d, ok, link[d],
                           IF ~ok \/ skip THEN "none"
                           ELSE IF link[d] THEN "read" ELSE "connect",
                           IF ~ok THEN CatchEnd(t)
                           ELSE IF skip THEN Ended(t, TRUE) ELSE "none",
                           tasks[t].n, tasks[t].got)
    /\ UNCHANGED <<codec, variant, isScanning, devices, deviceData>>
    /\ UNCHANGED scanVars
    /\ UNCHANGED bleVars

\* The transport accepts a connect to d: d is not connected, and the
\* disconnect event of its previous link has been delivered.
CanConnect(d) == ~link[d] /\ ~evq[d]

\* Where connectToDevice publishes the session: right after connect in
\* src/ble.tsx, after service discovery in src/App.tsx.
SetsConnectedAfter(t, pc) ==
    /\ tasks[t].kind = "connect"
    /\ IF variant = "ble" THEN pc = "connect" ELSE pc = "discover"

\* await device.connect().
ConnectStep(t, ok) ==
    /\ Running(t, "connect")
    /\ LET d == tasks[t].dev
           pub == ok /\ SetsConnectedAfter(t, "connect")
       IN  /\ ok => CanConnect(d)
           /\ link' = IF ok THEN [link EXCEPT ![d] = TRUE] ELSE link
           /\ discovered' = IF ok THEN [discovered EXCEPT ![d] = FALSE]
                            ELSE discovered
           /\ tasks' = IF ~ok THEN Catch(t)
                       ELSE IF tasks[t].kind = "fetch"
                            THEN [tasks EXCEPT ![t].pc = "discover",
                                               ![t].n = @ + 1]
                            ELSE Goto(t, "mtu")
           /\ connectedDevice' = IF pub THEN d ELSE connectedDevice
           /\ listener' = IF pub THEN d ELSE listener
           /\ last' = Step("connect", d, ok, link[d],
                           IF ~ok THEN "none"
                           ELSE IF tasks[t].kind = "fetch"
                                THEN "discover_services" ELSE "mtu",
                           IF ok THEN "none" ELSE CatchEnd(t),
                           tasks[t].n, tasks[t].got)
    /\ UNCHANGED <<codec, variant, isScanning, devices, deviceData, evq, monitor,
                   req, notified>>
    /\ UNCHANGED scanVars

\* await newConnectedDevice.requestMTU(250).
MtuStep(t, ok) ==
    /\ Running(t, "mtu")
    /\ LET d == tasks[t].dev
       IN  /\ ok => link[d]
           /\ tasks' = IF ok THEN Goto(t, "discover") ELSE Catch(t)
           /\ last' = Step("mtu", d, ok, link[d],
                           IF ok THEN "discover_services" ELSE "none",
                           IF ok THEN "none" ELSE CatchEnd(t),
                           tasks[t].n, tasks[t].got)
    /\ UNCHANGED <<codec, variant>>
    /\ UNCHANGED uiVars
    /\ UNCHANGED scanVars
    /\ UNCHANGED bleVars

\* await device.discoverAllServicesAndCharacteristics().
DiscoverStep(t, ok) ==
    /\ Running(t, "discover")
    /\ LET d == tasks[t].dev
           pub == ok /\ SetsConnectedAfter(t, "discover")
       IN  /\ ok => link[d]
           /\ discovered' = IF ok THEN [discovered EXCEPT ![d] = TRUE]
                            ELSE discovered
           /\ tasks' = IF ~ok THEN Catch(t)
                       ELSE IF pub THEN Finish(t)
                       ELSE [tasks EXCEPT ![t].pc = "read", ![t].i = 1]
           /\ connectedDevice' = IF pub THEN d ELSE connectedDevice
           /\ listener' = IF pub THEN d ELSE listener
           /\ last' = Step("discover_services", d, ok, link[d],
                           IF ok /\ ~pub THEN "read" ELSE "none",
                           IF ~ok THEN CatchEnd(t)
                           ELSE IF pub THEN Ended(t, TRUE) ELSE "none",
                           tasks[t].n, tasks[t].got)
    /\ UNCHANGED <<codec, variant, isScanning, devices, deviceData, link, evq,
                   monitor, req, notified>>
    /\ UNCHANGED scanVars

\* What the call does once its last read succeeded: connectToDevice of
\* src/ble.tsx calls setDeviceData, the fetch of build appA goes on to the
\* Get-Request, the fetch of build appC only logs.
AfterReads(t) ==
    IF tasks[t].kind = "connect" THEN "publish"
    ELSE IF variant = "appA" THEN "write"
    ELSE "log"

\* await device.readCharacteristicForService(service, characteristic): the
\* i-th read of the call.  A failed read throws into the catch block.
ReadStep(t, ok) ==
    /\ Running(t, "read")
    /\ LET d == tasks[t].dev
           a == ReadList(variant)[tasks[t].i]
           got == tasks[t].got \cup {a.field}
           isLast == tasks[t].i = Len(ReadList(variant))
           then == AfterReads(t)
       IN  /\ ok => Ready(d)
           /\ tasks' = IF ~ok THEN Catch(t)
                       ELSE IF ~isLast
                            THEN [tasks EXCEPT ![t].i = @ + 1, ![t].got = got]
                       ELSE IF then = "write"
                            THEN [tasks EXCEPT ![t].pc = "write",
                                               ![t].got = got]
                       ELSE Finish(t)
           /\ deviceData' = IF ok /\ isLast /\ then = "publish"
                            THEN Data(got) ELSE deviceData
           /\ last' = Step("read", d, ok, link[d],
                           IF ok /\ ~isLast THEN "read"
                           ELSE IF ok /\ then = "write" THEN "write"
                           ELSE "none",
                           IF ~ok THEN CatchEnd(t)
                           ELSE IF isLast /\ then # "write"
                                THEN Ended(t, TRUE) ELSE "none",
                           tasks[t].n, IF ok THEN got ELSE tasks[t].got)
    /\ UNCHANGED <<codec, variant, isScanning, devices, connectedDevice, listener>>
    /\ UNCHANGED scanVars
    /\ UNCHANGED bleVars

\* device.writeCharacteristicWithoutResponseForService(...) completes in the
\* transport: the Get-Request reached the device, which may answer from now
\* on.  The code after the await runs in ArmStep.
WriteStep(t, ok) ==
    /\ Running(t, "write")
    /\ LET d == tasks[t].dev
       IN  /\ ok => Ready(d)
           /\ req' = IF ok THEN [req EXCEPT ![d] = "pending"] ELSE req
           /\ notified' = IF ok THEN [notified EXCEPT ![d] = 0] ELSE notified
           /\ tasks' = IF ok THEN Goto(t, "arm") ELSE Catch(t)
           /\ last' = Step("write", d, ok, link[d], "none",
                           IF ok THEN "none" ELSE CatchEnd(t),
                           tasks[t].n, tasks[t].got)
    /\ UNCHANGED <<codec, variant, link, discovered, evq, monitor>>
    /\ UNCHANGED uiVars
    /\ UNCHANGED scanVars

\* The code after the await of the write runs:
\* bleManager.monitorCharacteristicForDevice(...) arms the subscription, then
\* setDeviceData({deviceName, ...}).
ArmStep(t) ==
    /\ Running(t, "arm")
    /\ LET d == tasks[t].dev
       IN  /\ monitor' = IF Ready(d) THEN monitor \cup {d} ELSE monitor
           /\ deviceData' = Data(tasks[t].got)
           /\ tasks' = Finish(t)
           /\ last' = Step("afterWrite", d, TRUE, link[d], "monitor",
                           Ended(t, TRUE), tasks[t].n, tasks[t].got)
    /\ UNCHANGED <<codec, variant, isScanning, devices, connectedDevice, listener,
                   link, discovered, evq, req, notified>>
    /\ UNCHANGED scanVars

\* disconnectDevice returns to its caller: connectToDevice of src/ble.tsx
\* goes on with its connection check, every other caller is done.
Return(t) ==
    IF tasks[t].kind = "connect" /\ tasks[t].ret = "check"
    THEN Goto(t, "check") ELSE Finish(t)

\* await connectedDevice.isConnected() of disconnectDevice.  A rejected call
\* lands in the catch block, which only logs.
DCheckStep(t, ok) ==
    /\ Running(t, "d_check")
    /\ LET d == tasks[t].cd
           clear == ok /\ ~link[d]
       IN  /\ tasks' = IF ok /\ link[d] THEN Goto(t, "d_cancel")
                       ELSE Return(t)
           /\ connectedDevice' = IF clear THEN Null ELSE connectedDevice
           /\ listener' = IF clear THEN Null ELSE listener
           /\ deviceData' = IF clear THEN NoData ELSE deviceData
           /\ last' = Step("d_isConnected", d, ok, link[d],
                           IF ok /\ link[d] THEN "cancelConnection"
                           ELSE "none",
                           IF ~ok THEN "disconnectFailed"
                           ELSE IF link[d] THEN "none" ELSE "disconnectDone",
                           0, {})
    /\ UNCHANGED <<codec, variant, isScanning, devices>>
    /\ UNCHANGED scanVars
    /\ UNCHANGED bleVars

\* await connectedDevice.cancelConnection() of disconnectDevice, then
\* setConnectedDevice(null); setDeviceData(null).  A rejected call lands in
\* the catch block, which only logs.
DCancelStep(t, ok) ==
    /\ Running(t, "d_cancel")
    /\ LET d == tasks[t].cd
       IN  /\ ok => link[d]
           /\ IF ok THEN LinkDown(d) ELSE UNCHANGED bleVars
           /\ tasks' = Return(t)
           /\ connectedDevice' = IF ok THEN Null ELSE connectedDevice
           /\ listener' = IF ok THEN Null ELSE listener
           /\ deviceData' = IF ok THEN NoData ELSE deviceData
           /\ last' = Step("cancelConnection", d, ok, link[d], "none",
                           IF ok THEN "disconnectDone"
                           ELSE "disconnectFailed", 0, {})
    /\ UNCHANGED <<codec, variant, isScanning, devices>>
    /\ UNCHANGED scanVars

---------------------------------------------------------------------------
\* One step of an async call: the awaited transport call completes.
TaskStep(t) ==
    \/ ArmStep(t)
    \/ /\ ~AfterWriteDue
       /\ \/ \E ok \in BOOLEAN : IsConnectedStep(t, ok)
          \/ \E ok \in BOOLEAN : ConnectStep(t, ok)
          \/ \E ok \in BOOLEAN : MtuStep(t, ok)
          \/ \E ok \in BOOLEAN : DiscoverStep(t, ok)
          \/ \E ok \in BOOLEAN : ReadStep(t, ok)
          \/ \E ok \in BOOLEAN : WriteStep(t, ok)
          \/ \E ok \in BOOLEAN : DCheckStep(t, ok)
          \/ \E ok \in BOOLEAN : DCancelStep(t, ok)

\* The scan aggregator alone.
ScanNext ==
    \/ StartScan
    \/ StopScan
    \/ \E id \in Devices, named \in BOOLEAN : ScanDiscover(id, named)
    \/ ScanError
    \/ \E isCur \in BOOLEAN : TimerFire(isCur)

\* Connections, fetches and the transport, the scan left as it is.
ConnNext ==
    \/ \E d \in Devices : PressDevice(d)
    \/ PressFetch
    \/ PressDisconnect
    \/ \E t \in TaskIds : TaskStep(t)
    \/ \E d \in Devices : LinkDrop(d)
    \/ \E d \in Devices : OnDeviceDisconnected(d)
    \/ \E d \in Devices : DeviceNotify(d)

\* The component: scanning and connections.  The codec functions are pure;
\* CodecSpec applies them to their inputs.
Next == ScanNext \/ ConnNext

Spec == Init /\ [][Next]_vars

ScanSpec == Init /\ [][ScanNext]_vars

\* The scan aggregator under fairness: a timer that is armed fires; the user
\* and the radio owe nothing.
FairScanSpec ==
    /\ Init
    /\ [][ScanNext]_vars
    /\ \A isCur \in BOOLEAN : WF_vars(TimerFire(isCur))

\* The state after one scan window that saw both devices and was ended by
\* its timer: StartScan, ScanDiscover of d1 and of d2, TimerFire.
ScanDone ==
    /\ variant \in Variants
    /\ isScanning = FALSE
    /\ devices = << "d1", "d2" >>
    /\ connectedDevice = Null
    /\ deviceData = NoData
    /\ listener = Null
    /\ scanning = FALSE
    /\ seenIds = (IF variant = "ble" THEN {} ELSE Devices)
    /\ timers = [cur |-> 0, stale |-> 0]
    /\ link = [d \in Devices |-> FALSE]
    /\ discovered = [d \in Devices |-> FALSE]
    /\ evq = [d \in Devices |-> FALSE]
    /\ monitor = {}
    /\ req = [d \in Devices |-> "none"]
    /\ notified = [d \in Devices |-> 0]
    /\ tasks = [t \in TaskIds |-> IdleTask]
    /\ codec = NoCodec
    /\ last = Ev("timer", Null, TRUE)

ConnSpec == ScanDone /\ [][ConnNext]_vars

\* The state ScanDone of build appA.
ScanDoneA == ScanDone /\ variant = "appA"

\* Build appA under fairness: the JavaScript runtime runs every continuation
\* and listener that is due; the user, the radio and the device owe nothing.
FairFetchSpec ==
    /\ ScanDoneA
    /\ [][ConnNext]_vars
    /\ \A t \in TaskIds : WF_vars(TaskStep(t))
    /\ \A d \in Devices : WF_vars(OnDeviceDisconnected(d))


---------------------------------------------------------------------------
(* Binary Codec: the Get-Request frame and the parsers of the response.    *)
(* Bytes are numbers 0..255, hex digits 0..15, base64 digits 0..63 with 64 *)
(* for the padding "=".                                                    *)

\* The bytes the sample OBIS codes are made of; 00 0b 60 06 03 ff is the
\* code of the source.
ObisBytes == {0, 3, 6, 11, 96, 255}
\* The bytes the sample response frames are made of.
FrameBytes == {0, 1, 11, 184}

RECURSIVE SeqsOf(_, _)
\* The sequences of n elements of S.
SeqsOf(S, n) ==
    IF n = 0 THEN { << >> }
    ELSE {Append(q, x) : q \in SeqsOf(S, n - 1), x \in S}

Frames == UNION {SeqsOf(FrameBytes, n) : n \in 0..MaxFrameLen}

RECURSIVE HexString(_)
\* The hex string of the bytes bs, two digits a byte.
HexString(bs) ==
    IF bs = << >> THEN << >>
    ELSE << bs[1] \div 16, bs[1] % 16 >> \o HexString(Tail(bs))

\* obisCode as the source writes it: a string of 12 hex digits.
ObisCodes == {HexString(bs) : bs \in SeqsOf(ObisBytes, 6)}

RECURSIVE FromHex(_)
\* Buffer.from(s, "hex"): one byte for every two digits.
FromHex(s) ==
    IF Len(s) < 2 THEN << >>
    ELSE << 16 * s[1] + s[2] >> \o FromHex(SubSeq(s, 3, Len(s)))

RECURSIVE ToBase64(_)
\* buffer.toString("base64").
ToBase64(bs) ==
    IF Len(bs) = 0 THEN << >>
    ELSE IF Len(bs) = 1
         THEN << bs[1] \div 4, (bs[1] % 4) * 16, 64, 64 >>
    ELSE IF Len(bs) = 2
         THEN << bs[1] \div 4, (bs[1] % 4) * 16 + bs[2] \div 16,
                 (bs[2] % 16) * 4, 64 >>
    ELSE << bs[1] \div 4, (bs[1] % 4) * 16 + bs[2] \div 16,
            (bs[2] % 16) * 4 + bs[3] \div 64, bs[3] % 64 >>
         \o ToBase64(SubSeq(bs, 4, Len(bs)))

RECURSIVE FromBase64(_)
\* Buffer.from(value, "base64"), and the transport's decoding of a value
\* that is written.
FromBase64(cs) ==
    IF Len(cs) < 4 THEN << >>
    ELSE (IF cs[3] = 64
          THEN << cs[1] * 4 + cs[2] \div 16 >>
          ELSE IF cs[4] = 64
          THEN << cs[1] * 4 + cs[2] \div 16,
                  (cs[2] % 16) * 16 + cs[3] \div 4 >>
          ELSE << cs[1] * 4 + cs[2] \div 16,
                  (cs[2] % 16) * 16 + cs[3] \div 4,
                  (cs[3] % 4) * 64 + cs[4] >>)
         \o FromBase64(SubSeq(cs, 5, Len(cs)))

\* dlmsRequest with a prefix one digit short.
dlmsRequest_ShortPrefix(obisCode) ==
    ToBase64(FromHex(<< 12, 0, 0 >> \o obisCode))

\* The value written for the request: `C001${obisCode}` as hex, in base64.
dlmsRequest(obisCode) == ToBase64(FromHex(<< 12, 0, 0, 1 >> \o obisCode))

\* buf.readUInt16BE(offset): throws a RangeError past the end of buf.
readUInt16BE(buf, offset) ==
    IF offset + 2 > Len(buf) THEN [thrown |-> TRUE, value |-> U32(0, 0)]
    ELSE [thrown |-> FALSE,
          value |-> U32(0, buf[offset + 1] * 256 + buf[offset + 2])]

\* readUInt32BE read as little-endian.
readUInt32BE_LittleEndian(buf, offset) ==
    IF offset + 4 > Len(buf) THEN [thrown |-> TRUE, value |-> U32(0, 0)]
    ELSE [thrown |-> FALSE,
          value |-> U32(buf[offset + 4] * 256 + buf[offset + 3],
                        buf[offset + 2] * 256 + buf[offset + 1])]

\* buf.readUInt32BE(offset): throws a RangeError past the end of buf.
readUInt32BE(buf, offset) ==
    IF offset + 4 > Len(buf) THEN [thrown |-> TRUE, value |-> U32(0, 0)]
    ELSE [thrown |-> FALSE,
          value |-> U32(buf[offset + 1] * 256 + buf[offset + 2],
                        buf[offset + 3] * 256 + buf[offset + 4])]

\* parseBatteryVoltage: build appA reads 32 bits at offset 0, build appC 16
\* bits at offset 3; the raw value is divided by 1000; the catch returns null.
parseBatteryVoltage(v, decodedValue) ==
    LET raw == IF v = "appA" THEN readUInt32BE(decodedValue, 0)
               ELSE readUInt16BE(decodedValue, 3)
    IN  IF raw.thrown THEN Result("null", U32(0, 0), 1, << >>)
        ELSE Result("number", raw.value, 1000, << >>)

\* parseMeterReading (build appC): 32 bits at offset 3, returned as they
\* are; the catch returns null.
parseMeterReading(decodedValue) ==
    LET raw == readUInt32BE(decodedValue, 3)
    IN  IF raw.thrown THEN Result("null", U32(0, 0), 1, << >>)
        ELSE Result("number", raw.value, 1, << >>)

\* The functions each build has.
CodecFns(v) ==
    CASE v = "appA" -> {"dlmsRequest", "parseBatteryVoltage"}
      [] v = "appC" -> {"parseBatteryVoltage", "parseMeterReading"}
      [] OTHER -> {}

\* The inputs of a codec function.
CodecInputs(fn) == IF fn = "dlmsRequest" THEN ObisCodes ELSE Frames

\* The Get-Request is built and written; the device receives the bytes the
\* transport decodes from the base64 value.
EncodeGetRequest ==
    /\ codec.fn = "dlmsRequest"
    /\ codec.out.st = "pending"
    /\ codec' = [codec EXCEPT
                   !.out = Result("frame", U32(0, 0), 1,
                                  FromBase64(dlmsRequest(codec.in)))]
    /\ UNCHANGED <<variant, tasks, last>>
    /\ UNCHANGED uiVars
    /\ UNCHANGED scanVars
    /\ UNCHANGED bleVars

\* The monitor callback decodes the base64 value of the notification and
\* parses the battery voltage.
ParseBatteryVoltage ==
    /\ codec.fn = "parseBatteryVoltage"
    /\ codec.out.st = "pending"
    /\ codec' = [codec EXCEPT
                   !.out = parseBatteryVoltage(
                               variant, FromBase64(ToBase64(codec.in)))]
    /\ UNCHANGED <<variant, tasks, last>>
    /\ UNCHANGED uiVars
    /\ UNCHANGED scanVars
    /\ UNCHANGED bleVars

\* The decoded value of a notification is parsed as a meter reading.
ParseMeterReading ==
    /\ codec.fn = "parseMeterReading"
    /\ codec.out.st = "pending"
    /\ codec' = [codec EXCEPT
                   !.out = parseMeterReading(FromBase64(ToBase64(codec.in)))]
    /\ UNCHANGED <<variant, tasks, last>>
    /\ UNCHANGED uiVars
    /\ UNCHANGED scanVars
    /\ UNCHANGED bleVars

CodecNext ==
    \/ EncodeGetRequest
    \/ ParseBatteryVoltage
    \/ ParseMeterReading

\* A codec function of a build of src/App.tsx is about to be applied to one
\* of its inputs; the rest of the state is as in Init.
CodecInit ==
    /\ variant \in AppVariants
    /\ isScanning = FALSE
    /\ devices = << >>
    /\ connectedDevice = Null
    /\ deviceData = NoData
    /\ listener = Null
    /\ scanning = FALSE
    /\ seenIds = {}
    /\ timers = [cur |-> 0, stale |-> 0]
    /\ link = [d \in Devices |-> FALSE]
    /\ discovered = [d \in Devices |-> FALSE]
    /\ evq = [d \in Devices |-> FALSE]
    /\ monitor = {}
    /\ req = [d \in Devices |-> "none"]
    /\ notified = [d \in Devices |-> 0]
    /\ tasks = [t \in TaskIds |-> IdleTask]
    /\ last = Ev("init", Null, TRUE)
    /\ \E fn \in CodecFns(variant) :
          codec \in {[fn |-> fn, in |-> x,
                      out |-> Result("pending", U32(0, 0), 1, << >>)] :
                     x \in CodecInputs(fn)}

CodecSpec == CodecInit /\ [][CodecNext]_vars

---------------------------------------------------------------------------
(* Claims *)

\* C1: within a scan window the device list holds each id at most once, in
\* the order the ids were first seen: the list never holds a duplicate, and
\* a step either leaves it as it is, empties it as startScan opens a new
\* window, or appends at its end an id it did not hold.
C1_UniqueFirstSeen ==
    /\ [](NoDup(devices))
    /\ [][\/ devices' = devices
          \/ last'.op = "startScan" /\ devices' = << >>
          \/ /\ last'.op = "discover"
             /\ last'.dev \notin Range(devices)
             /\ devices' = Append(devices, last'.dev)]_vars

\* C1 witness: the scan callback has just been given a device that was
\* already first in a list of two, a duplicate event.
C1_Witness ==
    /\ last.op = "discover"
    /\ last.ok
    /\ Len(devices) = 2
    /\ devices[1] = last.dev

\* C2: after the disconnect event of the connected device was delivered,
\* connectedDevice and deviceData are both null, whatever call is in flight.
C2_DisconnectClears ==
    (last.op = "onDisconnected" /\ last.ok)
        => (connectedDevice = Null /\ deviceData = NoData)

\* C2 witness: the event of the connected device was delivered while a
\* fetch or a connect of that device was suspended at a read.
C2_Witness ==
    /\ last.op = "onDisconnected"
    /\ last.ok
    /\ \E t \in TaskIds : Running(t, "read") /\ tasks[t].dev = last.dev

\* C3: deviceData is non-null only while connectedDevice is non-null: the
\* step that ends a fetch and the notification callback never leave data
\* behind where an unsolicited disconnect cleared the session.
C3_NoDataWithoutSession ==
    (last.end = "fetchDone" \/ last.op = "notify")
        => (deviceData.present => connectedDevice # Null)

\* C4: at most one device has an open or opening transport connection
\* (stated for src/ble.tsx, whose connectToDevice disconnects first).
C4_SingleConnection ==
    variant = "ble" =>
    Cardinality({d \in Devices :
                   \/ link[d]
                   \/ \E t \in TaskIds : Running(t, "connect")
                                         /\ tasks[t].dev = d}) <= 1

\* C5: a characteristic read, write or notification subscription is only
\* issued against a session that is Ready: its link is connected and its
\* services were discovered on that link.  A link that has just gone down
\* is allowed for as long as its disconnect event is still undelivered.
C5_OpsOnlyWhenReady ==
    last.issued \in {"read", "write", "monitor"}
        => (Ready(last.dev) \/ evq[last.dev])

\* C6: a fetch that fails at a characteristic operation because the link
\* went down after its readiness check has made exactly one
\* reconnect-and-rediscover cycle; no fetch makes more than one.
C6_OneReconnect ==
    /\ (last.end = "fetchFailed" /\ last.op \in {"read", "write"}
        /\ ~last.up) => last.n = 1
    /\ \A t \in TaskIds : tasks[t].kind = "fetch" => tasks[t].n <= 1

\* C7: of two calls of disconnectDevice in a row only one invokes
\* cancelConnection, so no two calls ever wait on a cancelConnection
\* together, and a call that ran through leaves connectedDevice and
\* deviceData null.
C7_DisconnectIdempotent ==
    /\ Cardinality({t \in TaskIds : Running(t, "d_cancel")}) <= 1
    /\ last.end = "disconnectDone"
         => (connectedDevice = Null /\ deviceData = NoData)

\* C8: when isConnected or cancelConnection fails in disconnectDevice the
\* cleanup still runs: connectedDevice and deviceData are cleared and the
\* notification subscription of the device is removed.
C8_CleanupOnFailedTeardown ==
    last.end = "disconnectFailed"
        => /\ connectedDevice = Null
           /\ deviceData = NoData
           /\ last.dev \notin monitor

\* C9: a failing read never ends the fetch as a failure, and a fetch that
\* ended has published exactly the fields whose reads succeeded.
C9_PartialResults ==
    /\ (last.op = "read" /\ ~last.ok) => last.end # "fetchFailed"
    /\ (last.end = "fetchDone" /\ last.op = "read")
         => (deviceData.present /\ deviceData.fields = last.got)

\* C10: every Get-Request that is pending is eventually resolved, by a
\* decoded notification or by a NoResponse report.
C10_RequestResolves ==
    \A d \in Devices : (req[d] = "pending") ~> (req[d] = "resolved")

\* C11: the subscription is armed before the Get-Request is written, so a
\* notification the device sends for the request is never lost for want of
\* a subscription.
C11_ArmedBeforeWrite ==
    last.op = "notify" => last.end # "lost"

\* C12: every teardown removes the subscription of the fetch, so a
\* notification delivered after the session was torn down (connectedDevice
\* null) never writes deviceData.
C12_NoWriteAfterTeardown ==
    (last.op = "notify" /\ last.ok) => connectedDevice # Null

\* C13: one Get-Request yields at most one reading: a notification for a
\* request that has its reading already is rejected, it does not write
\* deviceData again.
C13_OneReadingPerRequest ==
    last.op = "notify" => last.end # "rereading"

\* C14: for one device no two of connect, discover and disconnect are in
\* flight at the same time.
C14_OneStateChangeInFlight ==
    \A d \in Devices :
        Cardinality({t \in TaskIds :
                       /\ tasks[t].kind # "idle"
                       /\ tasks[t].pc \in {"connect", "discover", "d_cancel"}
                       /\ (IF tasks[t].pc = "d_cancel"
                           THEN tasks[t].cd ELSE tasks[t].dev) = d}) <= 1

\* C15: connectedDevice names a device only after service discovery
\* succeeded on its current connection.  A link that has just gone down is
\* allowed for as long as its disconnect event is still undelivered.
C15_ConnectedOnlyWhenDiscovered ==
    connectedDevice # Null
        => (Ready(connectedDevice) \/ evq[connectedDevice])

\* C16: a failed MTU request does not end connectToDevice: the call goes on
\* to service discovery (stated for the connectToDevice of src/ble.tsx).
C16_MtuNonFatal ==
    (variant = "ble" /\ last.op = "mtu" /\ ~last.ok)
        => (last.issued = "discover_services" /\ last.end = "none")

\* C17: a connectToDevice that failed leaves no transport connection to its
\* device open and connectedDevice does not name that device (stated for
\* the connectToDevice of src/ble.tsx).
C17_FailedConnectCleansUp ==
    (variant = "ble" /\ last.end = "connectFailed")
        => (~link[last.dev] /\ connectedDevice # last.dev)

\* C18: startScan while a scan is active is a no-op: it leaves the device
\* list, the transport scan and the window timers as they are; the
\* transport scans exactly while isScanning, with one window timer of its own.
C18_StartScanNoOp ==
    /\ [](scanning <=> isScanning)
    /\ [](timers.cur <= 1)
    /\ [][(isScanning /\ last'.op = "startScan")
            => UNCHANGED <<isScanning, devices, seenIds, scanning, timers>>]_vars

\* C18 witness: startScan was called during a scan that had listed a device.
C18_Witness ==
    /\ last.op = "startScan"
    /\ ~last.ok
    /\ isScanning
    /\ Len(devices) > 0

\* C19: after the scan callback was given an error the transport is not
\* scanning and isScanning is false; a stopScan run by a timer when no scan
\* is active leaves scanning, isScanning and the device list as they are.
C19_StopScanAlways ==
    /\ [](last.op = "scanError" => (~scanning /\ ~isScanning))
    /\ [][(~scanning /\ ~isScanning /\ last'.op = "timer")
            => (~scanning' /\ ~isScanning' /\ devices' = devices)]_vars

\* C19 witness: a scan that had listed a device was ended by an error, its
\* window timer is still armed and will call stopScan again.
C19_Witness ==
    /\ last.op = "scanError"
    /\ Len(devices) > 0
    /\ timers.stale > 0

\* C20: a scan that is active has its window timer armed, and every scan
\* eventually stops.
C20_ScanEventuallyStops ==
    /\ [](scanning => timers.cur = 1)
    /\ (scanning ~> ~scanning)

\* C20 witness: the window timer of the running scan fired and stopped it.
C20_Witness ==
    /\ last.op = "timer"
    /\ last.ok
    /\ ~scanning
    /\ ~isScanning

\* C21: the state a scan error leaves differs from the state the window
\* timer would have left in its place: the caller can tell that the scan
\* ended with an error.
C21_ScanErrorSurfaced ==
    [][last'.op = "scanError"
         => <<isScanning', devices', connectedDevice', deviceData', listener'>>
              # <<FALSE, devices, connectedDevice, deviceData, listener>>]_vars

\* C22: a device without a name is never appended to the list; a device
\* with a name whose id is not listed is appended at the end.
C22_NamedOnly ==
    [][last'.op = "discover"
         => IF last'.ok /\ last'.dev \notin Range(devices)
            THEN devices' = Append(devices, last'.dev)
            ELSE devices' = devices]_vars

\* C22 witness: the scan reported a device without a name that is not in
\* the list, while another device is listed.
C22_Witness ==
    /\ last.op = "discover"
    /\ ~last.ok
    /\ last.dev \notin Range(devices)
    /\ Len(devices) = 1

\* C27: the window timer of an earlier scan never stops a later scan.
C27_TimerCancelled ==
    [][(scanning /\ last'.op = "timer" /\ ~last'.ok) => scanning']_vars

\* C28: every read a fetch has issued addresses a service and a
\* characteristic of the tables, never a service UUID as the characteristic;
\* the manufacturer name is read from 2A29 of 180A.
C28_CatalogAddresses ==
    \A t \in TaskIds :
        Running(t, "read")
            => LET a == ReadList(variant)[tasks[t].i]
               IN  /\ a.svc \in services
                   /\ a.chr \in characteristics
                   /\ a.chr \notin services
                   /\ a.field = "manufacturer"
                         => a.svc = "180A" /\ a.chr = "2A29"

\* C29: the one disconnect listener is registered for connectedDevice, and
\* the disconnection of a device that is not connectedDevice leaves
\* connectedDevice and deviceData as they are.
C29_ListenerOfCurrentDevice ==
    [][/\ listener' = connectedDevice'
       /\ (last'.op = "onDisconnected" /\ connectedDevice # last'.dev)
             => UNCHANGED <<connectedDevice, deviceData>>]_vars

\* C29 witness: a device that is not connectedDevice was reported
\* disconnected while another device is connectedDevice.
C29_Witness ==
    /\ last.op = "onDisconnected"
    /\ ~last.ok
    /\ connectedDevice # Null
    /\ connectedDevice # last.dev

\* C23: the Get-Request frame of a 6-byte OBIS code is 8 bytes: C0 01, then
\* the 6 bytes of the code, unchanged and in order.
C23_GetRequestFrame ==
    (codec.fn = "dlmsRequest" /\ codec.out.st # "pending")
        => /\ codec.out.st = "frame"
           /\ Len(codec.out.bytes) = 8
           /\ codec.out.bytes[1] = 192
           /\ codec.out.bytes[2] = 1
           /\ \A k \in 1..6 :
                 codec.out.bytes[k + 2]
                     = 16 * codec.in[2 * k - 1] + codec.in[2 * k]

\* C23 witness: the frame of the OBIS code of the source, 00 0b 60 06 03 ff,
\* was built.
C23_Witness ==
    /\ codec.fn = "dlmsRequest"
    /\ codec.out.st = "frame"
    /\ codec.in = << 0, 0, 0, 11, 6, 0, 0, 6, 0, 3, 15, 15 >>

\* C24: a frame whose bytes 3..4 are 0B B8 decodes as a voltage to 3.0
\* volts (3000 / 1000), whatever its bytes 0..2 are.
C24_VoltageDecoding ==
    (/\ codec.fn = "parseBatteryVoltage"
     /\ codec.out.st # "pending"
     /\ Len(codec.in) >= 5
     /\ codec.in[4] = 11
     /\ codec.in[5] = 184)
        => /\ codec.out.st = "number"
           /\ codec.out.num = U32(0, 3000)
           /\ codec.out.den = 1000

\* C25: a frame of 7 bytes or more decodes as a meter reading to the
\* big-endian unsigned 32-bit number at its bytes 3..6, unscaled; bytes
\* 00 00 01 00 give 256.
C25_MeterReadingDecoding ==
    (/\ codec.fn = "parseMeterReading"
     /\ codec.out.st # "pending"
     /\ Len(codec.in) >= 7)
        => /\ codec.out.st = "number"
           /\ codec.out.den = 1
           /\ codec.out.num = U32(codec.in[4] * 256 + codec.in[5],
                                  codec.in[6] * 256 + codec.in[7])
           /\ SubSeq(codec.in, 4, 7) = << 0, 0, 1, 0 >>
                 => codec.out.num = U32(0, 256)

\* C25 witness: a frame with bytes 3..6 = 00 00 01 00 behind a first byte
\* that is not zero was decoded as a meter reading.
C25_Witness ==
    /\ codec.fn = "parseMeterReading"
    /\ codec.out.st = "number"
    /\ Len(codec.in) = 7
    /\ SubSeq(codec.in, 4, 7) = << 0, 0, 1, 0 >>
    /\ codec.in[1] = 184

\* C26: a frame of fewer than 5 bytes never decodes to a voltage and a
\* frame of fewer than 7 bytes never decodes to a meter reading: the parser
\* reports the failure (null).
C26_TruncatedFrame ==
    (/\ codec.out.st # "pending"
     /\ \/ codec.fn = "parseBatteryVoltage" /\ Len(codec.in) < 5
        \/ codec.fn = "parseMeterReading" /\ Len(codec.in) < 7)
        => codec.out.st = "null"

===========================================================================
